---- MODULE Spec2Model ----
(***************************************************************************)
(* Startup and request handling of the Orvion quick-start demo servers.    *)
(*                                                                         *)
(*   src/main.py                 lifespan, test_connection, manual gate    *)
(*                               (check_premium_access),                   *)
(*                               verify_premium_payment, the three proxies *)
(*   src/hosted-checkout/main.py lifespan, checkout_with_route             *)
(*   src/x402-mode/main.py       lifespan                                  *)
(*                                                                         *)
(* A process runs one of the three apps.  A handler advances from one      *)
(* await of a backend call to the next; Spec, SpecReplay and SpecLive have *)
(* one request in flight at a time, SpecConcurrent two.  The payments      *)
(* backend and the orvion SDK are the environment: every backend call ends *)
(* with one of the outcomes of SdkFailures, VerifyResults and              *)
(* HttpOutcomes, chosen freely.                                            *)
(***************************************************************************)
EXTENDS Integers, Sequences, FiniteSets, TLC

VARIABLES
    ORVION_API_KEY,   \* environment value read at import (main.py:34, hosted-checkout/main.py:47)
    orvion_client,    \* the module global of each app: TRUE when an OrvionClient is assigned
    started,          \* TRUE once the server accepts requests (startup completed)
    app,              \* which of the three demo servers this process runs
    startup,          \* position of lifespan and how its awaited calls ended
    registered,       \* TRUE when the protected routes are registered with the backend
    closed,           \* the OrvionClient instances close() was called on
    req,              \* the request in flight: inputs, handler position, locals, response
    calls,            \* the backend calls made for the request in flight, in order
    last_charge,      \* the create-charge call of the latest earlier request that made one
    admitted,         \* the proof of the latest earlier request that was granted access
    parked            \* a second request in flight, suspended at one of its awaits

\* what no request handler assigns
server ==
    <<ORVION_API_KEY, orvion_client, started, app, startup, registered, closed>>

\* what is kept of earlier requests, and the suspended request
history == <<last_charge, admitted, parked>>

vars == <<server, req, calls, history>>

-----------------------------------------------------------------------------
(* Bounds *)

MaxId == 2          \* distinct identifiers a caller or the backend can produce
MaxRoutes == 1      \* length of the route list the backend returns

-----------------------------------------------------------------------------
(* Values *)

\* Python None / "" / an identifier string.  Identifiers are tuples so that
\* None and "" compare unequal to every identifier.
PyNone == <<>>
Empty == <<"">>
Id(n) == <<"id", n>>
Ids == {Id(n) : n \in 1..MaxId}
OptIds == {PyNone} \cup Ids

\* bool(v) of an Optional[str]
Truthy(v) == v # PyNone /\ v # Empty

\* a or b
PyOr(a, b) == IF Truthy(a) THEN a ELSE b

NoStr == "None"     \* None where the other values are strings

PREMIUM_AMOUNT == "0.01"
PREMIUM_CURRENCY == "USDC"
PREMIUM_RESOURCE_REF == "demo:premium-article"
DEMO_CUSTOMER_EMAIL == "ekinburakozturk+demo@gmail.com"

Amounts == {"0.01", "0.05"}
Currencies == {"USDC", "EURC"}
CustomerRefs == {DEMO_CUSTOMER_EMAIL, "mallory"}

Apps == {"main", "hosted", "x402"}

-----------------------------------------------------------------------------
(* The environment: outcomes of a call through the orvion SDK client.      *)
(*   ok        the backend answered and the SDK returned a result          *)
(*   api_error the backend answered with an error status (404 not found,   *)
(*             409 conflict): the SDK raises OrvionAPIError                *)
(*   connect   the connection failed                                       *)
(*   timeout   the call timed out                                          *)
(* How the SDK reports a transport failure is not fixed by the demo code:  *)
(* it raises either OrvionAPIError or another exception.                   *)

ErrorStatuses == {404, 409}

SdkFailures ==
    [kind : {"api_error"}, status : ErrorStatuses, raised : {"OrvionAPIError"}]
    \cup [kind : {"connect", "timeout"}, status : {0},
          raised : {"OrvionAPIError", "Exception"}]

\* VerificationResult of verify_charge
VerifyResults ==
    [verified : {TRUE}, transaction_id : Ids, amount : Amounts,
     currency : Currencies, customer_ref : CustomerRefs, reason : {NoStr}]
    \cup [verified : {FALSE}, transaction_id : {PyNone}, amount : {NoStr},
          currency : {NoStr}, customer_ref : {NoStr},
          reason : {NoStr, "not settled"}]

\* Charge returned by create_charge: the backend issues the id and the
\* requirement payload and records the amount and currency it was asked for.
Charge(id, amount, currency) ==
    [id |-> id, amount |-> amount, currency |-> currency,
     x402_requirements |-> <<"x402", id>>]

-----------------------------------------------------------------------------
(* Calls and responses *)

\* one backend call of the request in flight: the operation, its arguments,
\* how it ended (ok, api_error, connect, timeout, other) and what came back
Call(op, args, outcome, reply) ==
    [op |-> op, args |-> args, outcome |-> outcome, reply |-> reply]

CallsOf(op) == SelectSeq(calls, LAMBDA c : c.op = op)

\* JSONResponse(content=..., status_code=...)
Response(status, kind, fields) ==
    [status |-> status, kind |-> kind, fields |-> fields]

NoResponse == Response(0, "none", <<>>)

\* Starlette's answer to an exception no handler caught
UnhandledError == Response(500, "unhandled", <<>>)

\* The JSON body of a POST as the caller sent it: text that does not parse,
\* a JSON value that is no object, or an object with the keys below
\* (PyNone: the key is absent).  amount is a value the handlers never read.
Bodies ==
    [shape : {"invalid", "list"}, transaction_id : {PyNone}, tx_hash : {PyNone},
     amount : {NoStr}]
    \cup [shape : {"dict"}, transaction_id : OptIds \cup {Empty},
          tx_hash : {PyNone, Empty, Id(1)}, amount : {NoStr, "0.05"}]

NoBody ==
    [shape |-> "none", transaction_id |-> PyNone, tx_hash |-> PyNone,
     amount |-> NoStr]

IdleReq ==
    [handler |-> "idle", pc |-> "idle",
     x_transaction_id |-> PyNone, charge_id |-> PyNone, body |-> NoBody,
     route_id |-> PyNone,
     transaction_id |-> PyNone, route |-> PyNone, response |-> NoResponse]

-----------------------------------------------------------------------------
(* lifespan: startup of the apps *)

\* how the awaited startup calls can end: the health check reports a valid
\* key, an invalid one (main.py: a status other than 200), or raises;
\* sync_routes returns or raises
HealthOutcomes == {"ok", "invalid", "raised"}
SyncOutcomes == {"ok", "raised"}

NoStartup == [pc |-> "begin", health |-> "none", sync |-> "none"]

\* whether the app awaits its health check inside try/except:
\* main.py:60-74 does, hosted-checkout/main.py:82 and x402-mode/main.py:59
\* do not
HealthGuarded(a) == a = "main"

\* where lifespan stands after the health check: an exception nothing
\* catches leaves lifespan before its yield, and the startup fails
AfterHealth(a, outcome) ==
    IF outcome = "raised" /\ ~HealthGuarded(a) THEN "failed" ELSE "sync"

\* if ORVION_API_KEY: (main.py:53, x402-mode/main.py:56), if orvion_client:
\* (hosted-checkout/main.py:81): the health check and sync_routes come before
\* the yield
\* (MutSyncAfterYield: the yield reached without them)
MutSyncAfterYield(key_set) == "yield"
AfterBegin(key_set) == IF key_set THEN "health" ELSE "yield"

\* main.py:53-57, x402-mode/main.py:56-57 assign the global when
\* ORVION_API_KEY is set; hosted-checkout/main.py:70-73 assigned it at import
LifespanBegin ==
    /\ startup.pc = "begin"
    /\ orvion_client' = [orvion_client EXCEPT ![app] = ORVION_API_KEY # ""]
    /\ startup' = [startup EXCEPT !.pc = AfterBegin(ORVION_API_KEY # "")]
    /\ UNCHANGED <<ORVION_API_KEY, started, app, closed, registered, req, calls, history>>

LifespanHealth ==
    /\ startup.pc = "health"
    /\ \E o \in HealthOutcomes :
         startup' = [startup EXCEPT !.health = o, !.pc = AfterHealth(app, o)]
    /\ UNCHANGED <<ORVION_API_KEY, orvion_client, started, app, closed, registered,
                   req, calls, history>>

\* every app awaits sync_routes inside try/except Exception
LifespanSync ==
    /\ startup.pc = "sync"
    /\ \E o \in SyncOutcomes :
         /\ startup' = [startup EXCEPT !.sync = o, !.pc = "yield"]
         /\ registered' = (o = "ok")
    /\ UNCHANGED <<ORVION_API_KEY, orvion_client, started, app, closed, req, calls, history>>

\* lifespan=lifespan: the server accepts requests once lifespan reached its
\* yield, and not at all when the startup failed.  What the health check
\* returned is not read after the yield.
Serve ==
    /\ startup.pc = "yield"
    /\ started' = TRUE
    /\ startup' = [startup EXCEPT !.pc = "serving", !.health = "none"]
    /\ UNCHANGED <<ORVION_API_KEY, orvion_client, app, closed, registered, req, calls, history>>

\* The OrvionClient instances the running app has constructed: the global
\* orvion_client once it is assigned, and the _router_client that
\* x402-mode/main.py:96 constructs at import under `if ORVION_API_KEY:`
ConstructedClients ==
    (IF orvion_client[app] THEN {"orvion_client"} ELSE {})
    \cup (IF app = "x402" /\ ORVION_API_KEY # "" THEN {"_router_client"} ELSE {})

\* after the yield: if orvion_client: await orvion_client.close()
\* (main.py:94-95, hosted-checkout/main.py:98-99, x402-mode/main.py:75-76)
ClosedAtShutdown == IF orvion_client[app] THEN {"orvion_client"} ELSE {}

\* the server stops between requests and lifespan runs on after its yield
LifespanShutdown ==
    /\ startup.pc = "serving" /\ req.handler = "idle" /\ parked = PyNone
    /\ started' = FALSE
    /\ startup' = [startup EXCEPT !.pc = "stopped"]
    /\ closed' = closed \cup ClosedAtShutdown
    /\ UNCHANGED <<ORVION_API_KEY, orvion_client, app, registered, req, calls, history>>

-----------------------------------------------------------------------------
(* Module globals and the request handlers *)

\* No handler declares `global`: a handler reads ORVION_API_KEY and
\* orvion_client and assigns neither; only lifespan declares
\* `global orvion_client`.
\* (MutHandlerDropsClient: a handler that resets the client)
MutHandlerDropsClient ==
    /\ orvion_client' = [a \in Apps |-> FALSE]
    /\ UNCHANGED <<ORVION_API_KEY, started, app, closed, startup, registered>>
HandlerGlobals == UNCHANGED server

-----------------------------------------------------------------------------
(* Routes under @require_payment, served through OrvionMiddleware *)

\* OrvionMiddleware(..., register_on_first_request=False) in all three apps
register_on_first_request == FALSE

\* the decision on such a request is taken inside the SDK: any of these
GateStatuses == {200, 302, 402, 500}

\* a request to a route under @require_payment while the middleware is
\* installed (if ORVION_API_KEY:): the middleware registers the route first
\* when it is configured to register on the first request, then the decision
\* is made
ProtectedRequest ==
    /\ started /\ req.handler = "idle"
    /\ ORVION_API_KEY # ""
    /\ registered' = (registered \/ register_on_first_request)
    /\ \E status \in GateStatuses :
         req' = [IdleReq EXCEPT !.handler = "protected", !.pc = "done",
                                !.response = Response(status, "gate", <<>>)]
    /\ calls' = <<>>
    /\ UNCHANGED <<ORVION_API_KEY, orvion_client, started, app, closed, startup, history>>

-----------------------------------------------------------------------------
(* GET /api/premium/check : check_premium_access *)

\* transaction_id = charge_id or x_transaction_id
\* (MutProofHeaderFirst: the operands exchanged)
MutProofHeaderFirst(charge_id, x_transaction_id) == PyOr(x_transaction_id, charge_id)
ProofOf(charge_id, x_transaction_id) == PyOr(charge_id, x_transaction_id)

\* content of the 200 of check_premium_access
\* (MutGrantedEchoesCaller: the local transaction_id in place of the result's)
MutGrantedEchoesCaller(result, transaction_id) ==
    [access |-> "granted", transaction_id |-> transaction_id,
     amount |-> result.amount, currency |-> result.currency,
     customer_ref |-> result.customer_ref, verified |-> TRUE]
GrantedContent(result, transaction_id) ==
    [access |-> "granted", transaction_id |-> result.transaction_id,
     amount |-> result.amount, currency |-> result.currency,
     customer_ref |-> result.customer_ref, verified |-> TRUE]

\* content of the 402 of check_premium_access
\* (MutChallengeWrongId: charge_id taken from another field of the charge)
MutChallengeWrongId(charge) ==
    [error |-> "Payment Required", charge_id |-> charge.x402_requirements,
     amount |-> charge.amount, currency |-> charge.currency,
     x402_requirements |-> charge.x402_requirements,
     description |-> "Premium Article Access"]
ChallengeContent(charge) ==
    [error |-> "Payment Required", charge_id |-> charge.id,
     amount |-> charge.amount, currency |-> charge.currency,
     x402_requirements |-> charge.x402_requirements,
     description |-> "Premium Article Access"]

\* if transaction_id: (line 376)
\* (MutAlwaysVerify: the test left out)
MutAlwaysVerify(transaction_id) == "verify"
\* (MutSkipVerifyWhenAdmitted: a proof granted before is not verified again)
MutSkipVerifyWhenAdmitted(transaction_id) ==
    IF Truthy(transaction_id) /\ transaction_id # admitted THEN "verify" ELSE "create"
CheckNextPc(transaction_id) == IF Truthy(transaction_id) THEN "verify" ELSE "create"

\* a request arrives: the caller chooses header and query parameter
ReceiveCheck ==
    /\ app = "main" /\ started /\ req.handler = "idle"
    /\ \E h \in OptIds \cup {Empty}, q \in OptIds \cup {Empty} :
         req' = [IdleReq EXCEPT !.handler = "check", !.pc = "start",
                                !.x_transaction_id = h, !.charge_id = q]
    /\ calls' = <<>>
    /\ HandlerGlobals /\ UNCHANGED history

\* lines 366-376: the client guard and the choice of the proof
CheckStart ==
    /\ req.handler = "check" /\ req.pc = "start"
    /\ IF ~orvion_client["main"]
         THEN req' = [req EXCEPT !.pc = "done",
                        !.response = Response(500, "misconfigured", <<>>)]
         ELSE LET tid == ProofOf(req.charge_id, req.x_transaction_id)
              IN req' = [req EXCEPT !.transaction_id = tid,
                           !.pc = CheckNextPc(tid)]
    /\ HandlerGlobals /\ UNCHANGED <<calls, history>>

\* lines 395-400: "else: pass" after a result that is not verified and
\* "except OrvionAPIError: pass" both fall through to the new charge
\* (MutHeaderProofStops: a failed proof of the header alone is answered at once)
MutHeaderProofStops(r) ==
    IF Truthy(r.charge_id) THEN [r EXCEPT !.pc = "create"]
    ELSE [r EXCEPT !.pc = "done", !.response = Response(402, "rejected", <<>>)]
AfterFailedVerify(r) == [r EXCEPT !.pc = "create"]

\* lines 377-400: await verify_charge, then 200, or fall through to the charge
CheckVerify ==
    /\ req.handler = "check" /\ req.pc = "verify"
    /\ \/ \E result \in VerifyResults :
            /\ calls' = Append(calls, Call("verify_charge",
                                [transaction_id |-> req.transaction_id,
                                 resource_ref |-> PREMIUM_RESOURCE_REF],
                                "ok", result))
            /\ req' = IF result.verified
                        THEN [req EXCEPT !.pc = "done",
                                !.response = Response(200, "granted",
                                    GrantedContent(result, req.transaction_id))]
                        ELSE AfterFailedVerify(req)
       \/ \E f \in SdkFailures :
            /\ calls' = Append(calls, Call("verify_charge",
                                [transaction_id |-> req.transaction_id,
                                 resource_ref |-> PREMIUM_RESOURCE_REF],
                                f.kind, f))
            /\ req' = IF f.raised = "OrvionAPIError"
                        THEN AfterFailedVerify(req)
                        ELSE [req EXCEPT !.pc = "done", !.response = UnhandledError]
    /\ HandlerGlobals /\ UNCHANGED history

\* arguments of the create_charge call of check_premium_access (lines 404-410)
\* (MutCheckChargeFromCaller: the amount depends on the query parameter)
MutCheckChargeFromCaller(r) ==
    [amount |-> IF Truthy(r.charge_id) THEN "0.05" ELSE PREMIUM_AMOUNT,
     currency |-> PREMIUM_CURRENCY,
     customer_ref |-> DEMO_CUSTOMER_EMAIL, resource_ref |-> PREMIUM_RESOURCE_REF,
     description |-> "Premium Article Access"]
CheckChargeArgs(r) ==
    [amount |-> PREMIUM_AMOUNT, currency |-> PREMIUM_CURRENCY,
     customer_ref |-> DEMO_CUSTOMER_EMAIL, resource_ref |-> PREMIUM_RESOURCE_REF,
     description |-> "Premium Article Access"]

\* lines 402-427: await create_charge, then 402 or 500
CheckCreate ==
    /\ req.handler = "check" /\ req.pc = "create"
    /\ LET a == CheckChargeArgs(req) IN
       \/ \E id \in Ids :
            /\ calls' = Append(calls, Call("create_charge", a, "ok",
                                           Charge(id, a.amount, a.currency)))
            /\ req' = [req EXCEPT !.pc = "done",
                         !.response = Response(402, "challenge",
                             ChallengeContent(Charge(id, a.amount, a.currency)))]
       \/ \E f \in SdkFailures :
            /\ calls' = Append(calls, Call("create_charge", a, f.kind, f))
            /\ req' = [req EXCEPT !.pc = "done",
                         !.response = IF f.raised = "OrvionAPIError"
                                        THEN Response(500, "create_failed", <<>>)
                                        ELSE UnhandledError]
    /\ HandlerGlobals /\ UNCHANGED history

-----------------------------------------------------------------------------
(* GET /api/test-connection : test_connection *)

HealthStatuses == {200, 401, 500}

\* how a GET of /health or /v1/health ends: a response whose body is a JSON
\* object, a JSON value that is no object or text that does not parse, or
\* httpx.ConnectError, httpx.TimeoutException, another exception
TestOutcomes ==
    [kind : {"response"}, status : HealthStatuses,
     body : {"object", "list", "invalid"}]
    \cup [kind : {"connect", "timeout", "other"}, status : {0}, body : {"invalid"}]

\* result["backend"]; health_status 0 and api_key_valid "None" stand for None
BackendResult(reachable, health_status, api_key_valid, error) ==
    [reachable |-> reachable, health_status |-> health_status,
     api_key_valid |-> api_key_valid, error |-> error]

\* lines 149-166: result after the GET of /health
HealthResult(o) ==
    IF o.kind = "response"
      THEN BackendResult(TRUE, o.status, NoStr,
                         IF o.status # 200 THEN "health_check_returned" ELSE "")
    ELSE IF o.kind = "connect" THEN BackendResult(FALSE, 0, NoStr, "connection_refused")
    ELSE IF o.kind = "timeout" THEN BackendResult(FALSE, 0, NoStr, "connection_timeout")
    ELSE BackendResult(FALSE, 0, NoStr, "connection_error")

\* lines 154-166: every path but a 200 of /health returns at once
\* (MutAuthAfterAnyAnswer: the test of the status left out)
MutAuthAfterAnyAnswer(o) == IF o.kind = "response" THEN "auth" ELSE "done"
TestAfterHealth(o) ==
    IF o.kind = "response" /\ o.status = 200 THEN "auth" ELSE "done"

\* lines 168-196: result after the GET of /v1/health.  On a 200,
\* health_response.json() raises for text that does not parse, before
\* api_key_valid is assigned; health_data.get raises for a value that is no
\* object, after it; the except clause sets api_key_valid to None for both.
AuthResult(result, o) ==
    IF o.kind # "response"
      THEN [result EXCEPT !.api_key_valid = NoStr, !.error = "api_key_error"]
    ELSE IF o.status = 200
      THEN IF o.body = "object"
             THEN [result EXCEPT !.api_key_valid = "True"]
             ELSE [result EXCEPT !.api_key_valid = NoStr, !.error = "api_key_error"]
    ELSE IF o.status = 401
      THEN [result EXCEPT !.api_key_valid = "False", !.error = "unauthorized"]
    ELSE [result EXCEPT !.api_key_valid = NoStr, !.error = "unexpected_status"]

ReceiveTest ==
    /\ app = "main" /\ started /\ req.handler = "idle"
    /\ req' = [IdleReq EXCEPT !.handler = "test", !.pc = "health"]
    /\ calls' = <<>>
    /\ HandlerGlobals /\ UNCHANGED history

\* lines 149-166: await the GET of /health
TestHealth ==
    /\ req.handler = "test" /\ req.pc = "health"
    /\ \E o \in TestOutcomes :
         /\ calls' = Append(calls, Call("GET /health", <<>>, o.kind, o))
         /\ req' = IF TestAfterHealth(o) = "done"
                     THEN [req EXCEPT !.pc = "done",
                             !.response = Response(200, "test_connection",
                                                   HealthResult(o))]
                     ELSE [req EXCEPT !.pc = "auth"]
    /\ HandlerGlobals /\ UNCHANGED history

\* lines 168-198: await the GET of /v1/health with the API key, and answer
TestAuth ==
    /\ req.handler = "test" /\ req.pc = "auth"
    /\ \E o \in TestOutcomes :
         /\ calls' = Append(calls, Call("GET /v1/health",
                                [authorization |-> ORVION_API_KEY], o.kind, o))
         /\ req' = [req EXCEPT !.pc = "done",
                      !.response = Response(200, "test_connection",
                                     AuthResult(HealthResult(calls[1].reply), o))]
    /\ HandlerGlobals /\ UNCHANGED history

-----------------------------------------------------------------------------
(* POST /api/premium/verify : verify_premium_payment *)

ReceiveVerify ==
    /\ app = "main" /\ started /\ req.handler = "idle"
    /\ \E b \in Bodies :
         req' = [IdleReq EXCEPT !.handler = "verify", !.pc = "start", !.body = b]
    /\ calls' = <<>>
    /\ HandlerGlobals /\ UNCHANGED history

\* lines 436-450: the client guard, request.json() and body.get("transaction_id").
\* A body that does not parse, or is no object, raises inside the try and is
\* answered by the handler's except Exception.
VerifyStart ==
    /\ req.handler = "verify" /\ req.pc = "start"
    /\ req' =
         IF ~orvion_client["main"]
           THEN [req EXCEPT !.pc = "done",
                   !.response = Response(500, "misconfigured", <<>>)]
         ELSE IF req.body.shape # "dict"
           THEN [req EXCEPT !.pc = "done",
                   !.response = Response(400, "invalid_request", <<>>)]
         ELSE IF ~Truthy(req.body.transaction_id)
           THEN [req EXCEPT !.pc = "done",
                   !.response = Response(400, "missing_transaction_id", <<>>)]
         ELSE [req EXCEPT !.transaction_id = req.body.transaction_id,
                          !.pc = "verify"]
    /\ HandlerGlobals /\ UNCHANGED <<calls, history>>

\* content of the 200 of verify_premium_payment
VerifiedContent(result) ==
    [verified |-> TRUE, transaction_id |-> result.transaction_id,
     amount |-> result.amount, currency |-> result.currency,
     customer_ref |-> result.customer_ref]

\* the response of verify_premium_payment to a verification result (lines 457-475)
VerifyResponse(result) ==
    IF result.verified
      THEN Response(200, "verified", VerifiedContent(result))
      ELSE Response(402, "unverified",
             [verified |-> FALSE,
              reason |-> IF result.reason # NoStr THEN result.reason
                         ELSE "Payment not completed"])

\* the response of verify_premium_payment to an exception (lines 476-485)
\* (MutVerifyFailurePassesStatus: the backend's error status passed through)
MutVerifyFailurePassesStatus(f) ==
    IF f.raised = "OrvionAPIError"
      THEN Response(IF f.kind = "api_error" THEN f.status ELSE 500,
                    "verification_failed", <<>>)
      ELSE Response(400, "invalid_request", <<>>)
VerifyFailure(f) ==
    IF f.raised = "OrvionAPIError"
      THEN Response(500, "verification_failed", <<>>)
      ELSE Response(400, "invalid_request", <<>>)

\* lines 452-485: await verify_charge and answer
VerifyCall ==
    /\ req.handler = "verify" /\ req.pc = "verify"
    /\ \/ \E result \in VerifyResults :
            /\ calls' = Append(calls, Call("verify_charge",
                                [transaction_id |-> req.transaction_id,
                                 resource_ref |-> PREMIUM_RESOURCE_REF],
                                "ok", result))
            /\ req' = [req EXCEPT !.pc = "done",
                         !.response = VerifyResponse(result)]
       \/ \E f \in SdkFailures :
            /\ calls' = Append(calls, Call("verify_charge",
                                [transaction_id |-> req.transaction_id,
                                 resource_ref |-> PREMIUM_RESOURCE_REF],
                                f.kind, f))
            /\ req' = [req EXCEPT !.pc = "done", !.response = VerifyFailure(f)]
    /\ HandlerGlobals /\ UNCHANGED history

-----------------------------------------------------------------------------
(* The proxies: httpx calls to the backend *)

BackendStatuses == {200, 400, 404, 500}

\* the text of a backend response body; valid: response.json() parses it
RawBodies ==
    {[valid |-> TRUE, text |-> "{\"status\":\"confirmed\"}"],
     [valid |-> TRUE, text |-> "{\"detail\":\"transaction not found\"}"],
     [valid |-> FALSE, text |-> "<html>Bad Gateway</html>"]}

\* how an httpx request ends: a response, httpx.ConnectError,
\* httpx.TimeoutException, or another exception
HttpOutcomes ==
    [kind : {"response"}, status : BackendStatuses, body : RawBodies]
    \cup [kind : {"connect", "timeout", "other"}, status : {0},
          body : {[valid |-> FALSE, text |-> ""]}]

\* response.json(): the parsed value, or PyNone for the exception it raises
ParseJson(raw) == IF raw.valid THEN <<"json", raw.text>> ELSE PyNone

\* {"error": "Invalid JSON response from backend"}, as a parsed value
GenericEnvelope == <<"json", "{\"error\":\"Invalid JSON response from backend\"}">>

\* the try/except around response.json() and the JSONResponse of a proxy
\* (MutProxyAlwaysOk: status_code left at its default)
MutProxyAlwaysOk(o) ==
    IF ParseJson(o.body) # PyNone
      THEN Response(200, "proxied", ParseJson(o.body))
      ELSE Response(200, "proxied", GenericEnvelope)
ProxyPassThrough(o) ==
    IF ParseJson(o.body) # PyNone
      THEN Response(o.status, "proxied", ParseJson(o.body))
      ELSE Response(o.status, "proxied", GenericEnvelope)

\* the except clauses of a proxy: ConnectError, then Exception
\* (MutTimeoutUnanswered: no except clause reaches a timeout)
MutTimeoutUnanswered(o) ==
    IF o.kind = "connect" THEN Response(502, "backend_unreachable", <<>>)
    ELSE IF o.kind = "timeout" THEN NoResponse
    ELSE Response(502, "proxy_error", <<>>)
ProxyFailure(o) ==
    IF o.kind = "connect"
      THEN Response(502, "backend_unreachable", <<>>)
      ELSE Response(502, "proxy_error", <<>>)

\* the body of `async with httpx.AsyncClient(timeout=30.0)` of the proxies
ProxyForward(handler, op, args) ==
    /\ req.handler = handler /\ req.pc = "forward"
    /\ \E o \in HttpOutcomes :
         /\ calls' = Append(calls, Call(op, args, o.kind, o))
         /\ req' = [req EXCEPT !.pc = "done",
                      !.response = IF o.kind = "response" THEN ProxyPassThrough(o)
                                   ELSE ProxyFailure(o)]
    /\ HandlerGlobals /\ UNCHANGED history

(* POST /api/facilitator/confirm : proxy_facilitator_confirm *)

\* lines 495-520: request.json() and the validation of the body: the error
\* the body is answered with, "" when it passes
\* (MutConfirmIgnoresTxHash: the test of tx_hash left out)
MutConfirmIgnoresTxHash(b) ==
    IF b.shape = "invalid" THEN "invalid_json"
    ELSE IF b.shape # "dict" THEN "invalid_body"
    ELSE IF ~Truthy(b.transaction_id) THEN "missing_transaction_id"
    ELSE ""
ConfirmError(b) ==
    IF b.shape = "invalid" THEN "invalid_json"
    ELSE IF b.shape # "dict" THEN "invalid_body"
    ELSE IF ~Truthy(b.transaction_id) THEN "missing_transaction_id"
    ELSE IF ~Truthy(b.tx_hash) THEN "missing_tx_hash"
    ELSE ""

ReceiveConfirm ==
    /\ app = "main" /\ started /\ req.handler = "idle"
    /\ \E b \in Bodies :
         req' = IF ConfirmError(b) = ""
                  THEN [IdleReq EXCEPT !.handler = "confirm", !.body = b,
                                       !.pc = "forward"]
                  ELSE [IdleReq EXCEPT !.handler = "confirm", !.body = b,
                                       !.pc = "done",
                                       !.response = Response(400, ConfirmError(b), <<>>)]
    /\ calls' = <<>>
    /\ HandlerGlobals /\ UNCHANGED history

\* lines 522-551
ConfirmForward ==
    ProxyForward("confirm", "POST /v1/facilitator/confirm", [json |-> req.body])

(* GET /api/demo/charges/{transaction_id}/ui-state : proxy_demo_ui_state *)

ReceiveUiState ==
    /\ app = "main" /\ started /\ req.handler = "idle"
    /\ \E t \in Ids :
         req' = [IdleReq EXCEPT !.handler = "ui_state", !.pc = "forward",
                                !.transaction_id = t]
    /\ calls' = <<>>
    /\ HandlerGlobals /\ UNCHANGED history

\* lines 557-584
UiStateForward ==
    ProxyForward("ui_state", "GET /v1/demo/charges/{id}/ui-state",
                 [transaction_id |-> req.transaction_id])

(* POST /api/billing/transactions/{transaction_id}/cancel *)

ReceiveCancel ==
    /\ app = "main" /\ started /\ req.handler = "idle"
    /\ \E t \in Ids :
         req' = [IdleReq EXCEPT !.handler = "cancel", !.pc = "forward",
                                !.transaction_id = t]
    /\ calls' = <<>>
    /\ HandlerGlobals /\ UNCHANGED history

\* lines 590-618
CancelForward ==
    ProxyForward("cancel", "POST /v1/billing/transactions/{id}/cancel",
                 [transaction_id |-> req.transaction_id])

-----------------------------------------------------------------------------
(* GET /api/checkout : checkout_with_route (src/hosted-checkout/main.py) *)

\* A JSON scalar of a backend route: a string, a number, or PyNone when the
\* key is absent.
JStr(t) == <<"str", t>>
JNum(t) == <<"num", t>>

\* bool(v)
JTruthy(v) == v \notin {PyNone, JStr(""), JNum("0")}

\* str(v): the text of a string, the decimal digits of a number
PyStr(v) == IF v = PyNone THEN "None" ELSE v[2]

\* dict.get(key, default)
GetOr(v, default) == IF v = PyNone THEN default ELSE v

RouteAmounts == {PyNone, JStr("0.01"), JNum("0.05"), JNum("0")}

\* the entries of GET /v1/protected-routes/routes
RouteRecs ==
    [id : Ids, status : {PyNone, JStr("active"), JStr("paused")},
     amount : RouteAmounts, currency : {PyNone, JStr("EURC")},
     receiver_config_id : {PyNone, JStr("rc_1")}]

RECURSIVE SeqsUpTo(_, _)
SeqsUpTo(S, n) ==
    IF n = 0 THEN {<<>>}
    ELSE LET shorter == SeqsUpTo(S, n - 1)
         IN shorter \cup {Append(l, x) : l \in {q \in shorter : Len(q) = n - 1}, x \in S}

\* what the routes call returns: a list of routes, or JSON that is no list
RoutesPayloads ==
    [is_list : {TRUE}, items : SeqsUpTo(RouteRecs, MaxRoutes)]
    \cup {[is_list |-> FALSE, items |-> <<>>]}

\* next((r for r in routes if r.get("id") == route_id), None)
RECURSIVE FirstMatch(_, _)
FirstMatch(items, route_id) ==
    IF items = <<>> THEN PyNone
    ELSE IF Head(items).id = route_id THEN Head(items)
    ELSE FirstMatch(Tail(items), route_id)

\* lines 247-249
FindRoute(payload, route_id) ==
    IF payload.is_list THEN FirstMatch(payload.items, route_id) ELSE PyNone

\* lines 266-290: the payload of POST /v1/charges
ChargePayload(route) ==
    [amount |-> PyStr(route.amount),
     currency |-> GetOr(route.currency, JStr("USDC"))[2],
     customer_ref |-> "demo-user",
     return_url |-> "{base_url}/premium",
     receiver_config_id |-> route.receiver_config_id]

\* raise HTTPException(status_code=..., detail=...)
HTTPException(status, kind) == Response(status, kind, <<>>)

\* the caller chooses route_id; charge_id stands for the query parameters the
\* handler does not declare
ReceiveCheckout ==
    /\ app = "hosted" /\ started /\ req.handler = "idle"
    /\ \E rid \in Ids, q \in {PyNone, Id(1)} :
         req' = [IdleReq EXCEPT !.handler = "checkout", !.route_id = rid,
                   !.charge_id = q,
                   !.pc = IF orvion_client["hosted"] THEN "routes" ELSE "done",
                   !.response = IF orvion_client["hosted"] THEN NoResponse
                                ELSE HTTPException(500, "not_configured")]
    /\ calls' = <<>>
    /\ HandlerGlobals /\ UNCHANGED history

\* lines 251-274: the HTTPException raised for the route found, NoResponse
\* when the route is there, active and has an amount
\* (MutChargeWithoutAmount: the test of the amount left out)
MutChargeWithoutAmount(route) ==
    IF route = PyNone THEN HTTPException(404, "route_not_found")
    ELSE IF GetOr(route.status, JStr("active")) # JStr("active")
      THEN HTTPException(400, "route_not_active")
    ELSE NoResponse
RouteRejection(route) ==
    IF route = PyNone THEN HTTPException(404, "route_not_found")
    ELSE IF GetOr(route.status, JStr("active")) # JStr("active")
      THEN HTTPException(400, "route_not_active")
    ELSE IF ~JTruthy(route.amount) THEN HTTPException(400, "no_amount")
    ELSE NoResponse

\* lines 244-274: await the routes call, find the route, check status and amount
CheckoutRoutes ==
    /\ req.handler = "checkout" /\ req.pc = "routes"
    /\ \/ \E payload \in RoutesPayloads :
            LET route == FindRoute(payload, req.route_id) IN
            /\ calls' = Append(calls, Call("GET /v1/protected-routes/routes",
                                           <<>>, "ok", route))
            /\ req' =
                 IF RouteRejection(route) # NoResponse
                   THEN [req EXCEPT !.pc = "done", !.route = route,
                           !.response = RouteRejection(route)]
                 ELSE [req EXCEPT !.pc = "charge", !.route = route]
       \/ \E f \in SdkFailures :
            /\ calls' = Append(calls, Call("GET /v1/protected-routes/routes",
                                           <<>>, f.kind, f))
            /\ req' = [req EXCEPT !.pc = "done",
                         !.response = HTTPException(500, "failed_to_create_charge")]
    /\ HandlerGlobals /\ UNCHANGED history

\* lines 292-311: await POST /v1/charges; redirect to its checkout_url
CheckoutCharge ==
    /\ req.handler = "checkout" /\ req.pc = "charge"
    /\ LET payload == ChargePayload(req.route) IN
       \/ \E id \in Ids, has_url \in BOOLEAN :
            /\ calls' = Append(calls, Call("POST /v1/charges", payload, "ok",
                                  [id |-> id,
                                   checkout_url |-> IF has_url THEN <<"pay", id>>
                                                    ELSE PyNone]))
            /\ req' = [req EXCEPT !.pc = "done",
                         !.response =
                            IF has_url
                              THEN Response(302, "redirect", [url |-> <<"pay", id>>])
                              ELSE HTTPException(500, "no_checkout_url")]
       \/ \E f \in SdkFailures :
            /\ calls' = Append(calls, Call("POST /v1/charges", payload, f.kind, f))
            /\ req' = [req EXCEPT !.pc = "done",
                         !.response = HTTPException(500, "failed_to_create_charge")]
    /\ HandlerGlobals /\ UNCHANGED history

-----------------------------------------------------------------------------
(* the response is sent and the next request may arrive *)

\* the create-charge calls among the calls of the request in flight
IsCreate(c) == c.op \in {"create_charge", "POST /v1/charges"}
CreateCalls == SelectSeq(calls, IsCreate)

\* what identifies the priced route of the request in flight: the manual gate
\* has one price; checkout_with_route prices by the backend's route
RouteKey(r) ==
    IF r.handler = "check" THEN <<"premium">>
    ELSE <<r.route_id, r.route.amount, r.route.currency>>

\* whether the caller supplied a proof value with the request
WithProof(r) == Truthy(r.x_transaction_id) \/ Truthy(r.charge_id)

Respond ==
    /\ req.pc = "done"
    /\ req' = IdleReq
    /\ calls' = <<>>
    /\ last_charge' =
         IF CreateCalls # <<>>
           THEN [route |-> RouteKey(req), with_proof |-> WithProof(req),
                 amount |-> CreateCalls[1].args.amount,
                 currency |-> CreateCalls[1].args.currency]
           ELSE last_charge
    /\ UNCHANGED <<server, admitted, parked>>

\* the same end of a request, keeping nothing of it
RespondPlain ==
    /\ req.pc = "done"
    /\ req' = IdleReq
    /\ calls' = <<>>
    /\ UNCHANGED <<server, history>>

\* Two requests in flight: the handlers are coroutines of one event loop, and
\* at an await the loop may run the other request.  The request in flight is
\* suspended with its locals and the suspended one, if any, resumes with its
\* own; a request about to send its response sends it first.
Suspended(r, cs) == [req |-> r, calls |-> cs]

Switch ==
    /\ started /\ req.pc # "done"
    /\ req.handler # "idle" \/ parked # PyNone
    /\ parked' = IF req.handler = "idle" THEN PyNone ELSE Suspended(req, calls)
    /\ req' = IF parked = PyNone THEN IdleReq ELSE parked.req
    /\ calls' = IF parked = PyNone THEN <<>> ELSE parked.calls
    /\ UNCHANGED <<server, last_charge, admitted>>

\* the same end of a request, keeping the proof of a granted request in
\* place of the charge
RespondAdmitted ==
    /\ req.pc = "done"
    /\ req' = IdleReq
    /\ calls' = <<>>
    /\ admitted' = IF req.handler = "check" /\ req.response.kind = "granted"
                     THEN req.transaction_id ELSE admitted
    /\ UNCHANGED <<server, last_charge, parked>>

-----------------------------------------------------------------------------

Init ==
    /\ ORVION_API_KEY \in {"", "sk_demo"}
    /\ app \in Apps
    /\ orvion_client = [a \in Apps |-> a = "hosted" /\ app = a /\ ORVION_API_KEY # ""]
    /\ started = FALSE
    /\ startup = NoStartup
    /\ registered = FALSE
    /\ closed = {}
    /\ req = IdleReq
    /\ calls = <<>>
    /\ last_charge = PyNone
    /\ admitted = PyNone
    /\ parked = PyNone

Next ==
    \/ LifespanBegin
    \/ LifespanHealth
    \/ LifespanSync
    \/ Serve
    \/ ReceiveCheck
    \/ CheckStart
    \/ CheckVerify
    \/ CheckCreate
    \/ ReceiveVerify
    \/ VerifyStart
    \/ VerifyCall
    \/ ReceiveConfirm
    \/ ConfirmForward
    \/ ReceiveUiState
    \/ UiStateForward
    \/ ReceiveCancel
    \/ CancelForward
    \/ ReceiveCheckout
    \/ CheckoutRoutes
    \/ CheckoutCharge
    \/ ProtectedRequest
    \/ ReceiveTest
    \/ TestHealth
    \/ TestAuth
    \/ Respond
    \/ LifespanShutdown

Spec == Init /\ [][Next]_vars

\* sequences of requests to the manual handlers of src/main.py, remembering
\* which proof was granted access before
NextReplay ==
    \/ LifespanBegin
    \/ LifespanHealth
    \/ LifespanSync
    \/ Serve
    \/ ReceiveCheck
    \/ CheckStart
    \/ CheckVerify
    \/ CheckCreate
    \/ ReceiveVerify
    \/ VerifyStart
    \/ VerifyCall
    \/ RespondAdmitted

SpecReplay == Init /\ [][NextReplay]_vars

\* two concurrent requests to the manual and proxy handlers of src/main.py
NextConcurrent ==
    \/ LifespanBegin
    \/ LifespanHealth
    \/ LifespanSync
    \/ Serve
    \/ ReceiveCheck
    \/ CheckStart
    \/ CheckVerify
    \/ CheckCreate
    \/ ReceiveVerify
    \/ VerifyStart
    \/ VerifyCall
    \/ ReceiveConfirm
    \/ ConfirmForward
    \/ ReceiveUiState
    \/ UiStateForward
    \/ ReceiveCancel
    \/ CancelForward
    \/ RespondPlain
    \/ Switch

SpecConcurrent == Init /\ [][NextConcurrent]_vars

\* a step of a handler: a backend call awaited and ended, or the code up to
\* the next await
HandlerStep ==
    \/ CheckStart
    \/ CheckVerify
    \/ CheckCreate
    \/ VerifyStart
    \/ VerifyCall
    \/ ConfirmForward
    \/ UiStateForward
    \/ CancelForward
    \/ CheckoutRoutes
    \/ CheckoutCharge

NextLive ==
    \/ LifespanBegin
    \/ LifespanHealth
    \/ LifespanSync
    \/ Serve
    \/ ReceiveCheck
    \/ ReceiveVerify
    \/ ReceiveConfirm
    \/ ReceiveUiState
    \/ ReceiveCancel
    \/ ReceiveCheckout
    \/ HandlerStep
    \/ RespondPlain

\* every backend call ends (it responds, fails to connect or times out), and
\* the event loop runs a handler that can go on
SpecLive == Init /\ [][NextLive]_vars /\ WF_vars(HandlerStep)

-----------------------------------------------------------------------------
(* Properties *)

Done == req.pc = "done"
Proxies == {"confirm", "ui_state", "cancel"}
NoProofPresented == req.x_transaction_id = PyNone /\ req.charge_id = PyNone
BothProofsDiffer ==
    /\ Truthy(req.x_transaction_id) /\ Truthy(req.charge_id)
    /\ req.x_transaction_id # req.charge_id
HasCall(op, outcome) ==
    \E i \in DOMAIN calls : calls[i].op = op /\ calls[i].outcome = outcome
Is2xx(status) == status >= 200 /\ status < 300

\* C1: a request to check_premium_access with neither an X-Transaction-Id
\* header nor a charge_id parameter never calls verify_charge and is answered
\* by the 402 challenge that follows a successful create_charge, or by an
\* error (500); never by the 200 "access: granted".
C1_NoProofNeverAdmitted ==
    (req.handler = "check" /\ NoProofPresented) =>
        /\ CallsOf("verify_charge") = <<>>
        /\ Done =>
             /\ req.response.kind # "granted"
             /\ req.response.status \in {402, 500}
             /\ req.response.status = 402 =>
                  /\ req.response.kind = "challenge"
                  /\ HasCall("create_charge", "ok")

C1_Witness ==
    /\ req.handler = "check" /\ NoProofPresented /\ Done
    /\ req.response.status = 402

\* C3 as stated: with a header and a differing charge_id parameter,
\* verify_charge is called with the header value.
C3_HeaderTakesPrecedence ==
    (req.handler = "check" /\ BothProofsDiffer) =>
        \A i \in DOMAIN calls :
            calls[i].op = "verify_charge" =>
                calls[i].args.transaction_id = req.x_transaction_id

\* C3 amended: with a header and a differing charge_id parameter,
\* verify_charge is called with the charge_id query parameter.
C3_QueryTakesPrecedence ==
    (req.handler = "check" /\ BothProofsDiffer) =>
        \A i \in DOMAIN calls :
            calls[i].op = "verify_charge" =>
                calls[i].args.transaction_id = req.charge_id

C3_Witness ==
    /\ req.handler = "check" /\ BothProofsDiffer
    /\ CallsOf("verify_charge") # <<>>

\* C4: when verify_charge reports verified=true in check_premium_access or
\* verify_premium_payment, the response is 200 and carries the transaction_id,
\* amount, currency and customer_ref of the verification result.
C4_AdmitCarriesBackendValues ==
    req.handler \in {"check", "verify"} =>
        \A i \in DOMAIN calls :
            (calls[i].op = "verify_charge" /\ calls[i].outcome = "ok"
               /\ calls[i].reply.verified) =>
                /\ Done
                /\ req.response.status = 200
                /\ req.response.fields.transaction_id = calls[i].reply.transaction_id
                /\ req.response.fields.amount = calls[i].reply.amount
                /\ req.response.fields.currency = calls[i].reply.currency
                /\ req.response.fields.customer_ref = calls[i].reply.customer_ref

C4_Witness ==
    /\ req.handler = "check" /\ Done /\ req.response.status = 200
    /\ CallsOf("verify_charge") # <<>>
    /\ CallsOf("verify_charge")[1].reply.transaction_id # req.transaction_id

\* C5 as stated: a request of the manual handlers or the proxies during
\* which the connection to the backend failed is answered with 502, and not
\* with the granted / verified response.
C5_ConnectFailureIs502 ==
    (req.handler \in {"check", "verify"} \cup Proxies /\ Done
       /\ \E i \in DOMAIN calls : calls[i].outcome = "connect") =>
        /\ req.response.status = 502
        /\ req.response.kind \notin {"granted", "verified"}

\* C6 as stated: a request whose verification (check_premium_access,
\* verify_premium_payment) or forward (proxies) timed out is answered with 504,
\* and that backend operation was invoked once.
C6_TimeoutIs504 ==
    (req.handler \in {"check", "verify"} \cup Proxies /\ Done
       /\ \E i \in DOMAIN calls :
            calls[i].outcome = "timeout" /\ calls[i].op # "create_charge") =>
        /\ req.response.status = 504
        /\ \A i \in DOMAIN calls :
             calls[i].outcome = "timeout" => Len(CallsOf(calls[i].op)) = 1

\* C7 as stated: verify_premium_payment answers 200 on verified=true, 404 on
\* a transaction the backend reports as not found, 409 on a failed verification.
C7_VerifyEndpointContract ==
    (req.handler = "verify" /\ Done /\ calls # <<>>) =>
        LET c == calls[1] IN
        /\ (c.outcome = "ok" /\ c.reply.verified) => req.response.status = 200
        /\ (c.outcome = "api_error" /\ c.reply.status = 404) =>
              req.response.status = 404
        /\ (c.outcome = "ok" /\ ~c.reply.verified) => req.response.status = 409

\* C7 amended: verify_premium_payment answers 200 on verified=true, 402 on
\* verified=false, 500 when verify_charge raises OrvionAPIError (a transaction
\* that is not found included) and 400 when it raises another exception.
C7_VerifyStatuses ==
    (req.handler = "verify" /\ Done /\ calls # <<>>) =>
        LET c == calls[1] IN
        /\ (c.outcome = "ok" /\ c.reply.verified) => req.response.status = 200
        /\ (c.outcome = "ok" /\ ~c.reply.verified) => req.response.status = 402
        /\ (c.outcome # "ok" /\ c.reply.raised = "OrvionAPIError") =>
              req.response.status = 500
        /\ (c.outcome # "ok" /\ c.reply.raised # "OrvionAPIError") =>
              req.response.status = 400

C7_Witness ==
    /\ req.handler = "verify" /\ Done /\ calls # <<>>
    /\ calls[1].outcome = "api_error" /\ calls[1].reply.status = 404
    /\ req.response.status = 500

\* C8: a proxy answers a backend response with the backend's status, and with
\* the backend's JSON body, or the generic error envelope when the body does
\* not parse; an error status never becomes a success status.
C8_ProxyPassesThrough ==
    (req.handler \in Proxies /\ Done /\ calls # <<>>
       /\ calls[1].outcome = "response") =>
        LET o == calls[1].reply IN
        /\ req.response.status = o.status
        /\ o.body.valid => req.response.fields = <<"json", o.body.text>>
        /\ ~o.body.valid => req.response.fields = GenericEnvelope
        /\ ~Is2xx(o.status) => ~Is2xx(req.response.status)

C8_Witness ==
    /\ req.handler \in Proxies /\ Done /\ calls # <<>>
    /\ calls[1].outcome = "response"
    /\ calls[1].reply.status = 404 /\ calls[1].reply.body.valid

\* the currency of a backend route: route.get("currency", "USDC")
RouteCurrency(route) == IF route.currency = PyNone THEN "USDC" ELSE route.currency[2]

\* C9: every create-charge call carries the amount and currency of the route
\* (PREMIUM_AMOUNT / PREMIUM_CURRENCY in check_premium_access, the backend's
\* route in checkout_with_route), and so the same amount and currency as the
\* create-charge call of any earlier request to the same route, whatever the
\* two callers supplied.
C9_ChargePriceIsRoutePrice ==
    \A i \in DOMAIN CreateCalls :
        LET a == CreateCalls[i].args IN
        /\ req.handler = "check" =>
             a.amount = PREMIUM_AMOUNT /\ a.currency = PREMIUM_CURRENCY
        /\ req.handler = "checkout" =>
             a.amount = PyStr(req.route.amount) /\ a.currency = RouteCurrency(req.route)
        /\ (last_charge # PyNone /\ last_charge.route = RouteKey(req)) =>
             a.amount = last_charge.amount /\ a.currency = last_charge.currency

C9_Witness ==
    /\ CreateCalls # <<>> /\ last_charge # PyNone
    /\ last_charge.route = RouteKey(req)
    /\ last_charge.with_proof # WithProof(req)

C12_StartupReachesYield == startup.pc # "failed"

\* C13 (as stated): after a startup whose sync_routes failed, a request to a
\* route under @require_payment has the route registered before the decision.
C13_RegisteredOnFirstRequest ==
    (startup.sync = "raised" /\ req.handler = "protected" /\ Done) => registered

GateHandlers == {"check", "verify", "checkout", "protected"}
GateDecided ==
    /\ req.handler \in GateHandlers
    /\ calls # <<>> \/ (req.handler = "protected" /\ Done)

\* C14: no request is in flight before the startup completed; a gate
\* decision (a backend call of a gate handler, or the answer of a route under
\* @require_payment) comes after the sync_routes attempt returned or raised;
\* with ORVION_API_KEY set every request finds orvion_client assigned.
C14_SyncPrecedesGate ==
    /\ req.handler # "idle" => started
    /\ GateDecided => startup.sync \in SyncOutcomes
    /\ (req.handler # "idle" /\ ORVION_API_KEY # "") =>
           (orvion_client[app] /\ startup.sync \in SyncOutcomes)

\* a gate decision made after a sync_routes that raised
C14_Witness ==
    /\ req.handler = "check" /\ Done /\ req.response.status = 402
    /\ startup.sync = "raised" /\ orvion_client["main"]

HeaderProofOnly == Truthy(req.x_transaction_id) /\ ~Truthy(req.charge_id)
QueryProof == Truthy(req.charge_id)

\* the verify_charge call of the request ended with verified=false or with
\* an OrvionAPIError
VerifyFailed ==
    /\ CallsOf("verify_charge") # <<>>
    /\ LET c == CallsOf("verify_charge")[1]
       IN IF c.outcome = "ok" THEN ~c.reply.verified
          ELSE c.reply.raised = "OrvionAPIError"

\* C15 (as stated): a failed proof from the X-Transaction-Id header is
\* answered without creating a new charge.
C15_HeaderFailureNotRechallenged ==
    (req.handler = "check" /\ Done /\ HeaderProofOnly /\ VerifyFailed) =>
        CreateCalls = <<>>

\* C15 (amended): when verification of a presented proof fails, whether the
\* proof came from the query parameter or from the header, the handler makes
\* one create_charge call and answers 402 with the new charge, or 500 when
\* the creation fails.
C15_FailedProofRechallenges ==
    (req.handler = "check" /\ Done /\ VerifyFailed) =>
        /\ Len(CreateCalls) = 1
        /\ IF CreateCalls[1].outcome = "ok"
             THEN /\ req.response.status = 402
                  /\ req.response.fields.charge_id = CreateCalls[1].reply.id
             ELSE req.response.status = 500

\* a failed proof of the header alone, answered with a new charge
C15_Witness ==
    /\ req.handler = "check" /\ Done /\ HeaderProofOnly /\ VerifyFailed
    /\ req.response.status = 402 /\ Len(CreateCalls) = 1

\* C16: every request to check_premium_access that carries a proof (and
\* finds the client) makes its own verify_charge call for that proof, and is
\* granted access exactly when that call returned verified=true, whatever
\* was granted before.
C16_EveryProofReverified ==
    (req.handler = "check" /\ Done /\ orvion_client["main"]
       /\ (QueryProof \/ HeaderProofOnly)) =>
        /\ Len(CallsOf("verify_charge")) = 1
        /\ LET c == CallsOf("verify_charge")[1]
           IN /\ c.args.transaction_id = ProofOf(req.charge_id, req.x_transaction_id)
              /\ (req.response.status = 200) <=> (c.outcome = "ok" /\ c.reply.verified)

\* the proof granted by the request before is presented again and the
\* backend now answers verified=false: the request is not granted
C16_Witness ==
    /\ req.handler = "check" /\ Done
    /\ Truthy(admitted) /\ req.transaction_id = admitted
    /\ VerifyFailed /\ req.response.status = 402

\* the route the backend's list held for the route_id of the request
RoutesAnswered ==
    /\ req.handler = "checkout" /\ Done
    /\ HasCall("GET /v1/protected-routes/routes", "ok")
RouteFound == RoutesAnswered /\ req.route # PyNone
RouteActive == RouteFound /\ req.route.status \in {PyNone, JStr("active")}
RoutePriced == RouteFound /\ JTruthy(req.route.amount)

\* C17 (as stated): a route that is found and active but has no amount is
\* answered 500, without a charge.
C17_NoAmountIs500 ==
    (RouteActive /\ ~RoutePriced) =>
        (req.response.status = 500 /\ CreateCalls = <<>>)

\* C17 (amended): checkout_with_route issues no POST /v1/charges and answers
\* an error when the route is not found (404), not active (400) or has no
\* amount (400); it answers 302 only when the route was found, active and
\* priced and the charge it created carries a checkout_url.
C17_NoChargeForUnresolvedPrice ==
    /\ (RoutesAnswered /\ ~(RouteActive /\ RoutePriced)) =>
          /\ CreateCalls = <<>>
          /\ req.response.status = IF RouteFound THEN 400 ELSE 404
    /\ (req.handler = "checkout" /\ Done /\ req.response.status = 302) =>
          /\ RouteActive /\ RoutePriced
          /\ Len(CreateCalls) = 1
          /\ CreateCalls[1].outcome = "ok"
          /\ CreateCalls[1].reply.checkout_url # PyNone
          /\ req.response.fields.url = CreateCalls[1].reply.checkout_url

\* an active route with no amount, refused
C17_Witness ==
    /\ RouteActive /\ ~RoutePriced
    /\ req.response = HTTPException(400, "no_amount") /\ CreateCalls = <<>>

ConfirmErrors ==
    {"invalid_json", "invalid_body", "missing_transaction_id", "missing_tx_hash"}
ValidConfirmBody ==
    /\ req.body.shape = "dict"
    /\ Truthy(req.body.transaction_id) /\ Truthy(req.body.tx_hash)

\* C18: proxy_facilitator_confirm calls the backend exactly when the body is
\* a JSON object with non-empty transaction_id and tx_hash, once and with the
\* body as received; every other body is answered 400 with one of the
\* structured errors and no backend call.
C18_ConfirmForwardsValidBodiesOnly ==
    (req.handler = "confirm" /\ Done) =>
        IF ValidConfirmBody
          THEN /\ Len(calls) = 1
               /\ calls[1].op = "POST /v1/facilitator/confirm"
               /\ calls[1].args.json = req.body
          ELSE /\ calls = <<>>
               /\ req.response.status = 400
               /\ req.response.kind \in ConfirmErrors

\* an object with a transaction_id and an empty tx_hash, refused
C18_Witness ==
    /\ req.handler = "confirm" /\ Done
    /\ req.body.shape = "dict" /\ Truthy(req.body.transaction_id)
    /\ req.body.tx_hash = Empty
    /\ req.response = Response(400, "missing_tx_hash", <<>>) /\ calls = <<>>

InFlight == req.handler # "idle"
Answered == Done /\ req.response # NoResponse

\* C19: every request to check_premium_access, verify_premium_payment, the
\* three proxies and checkout_with_route is eventually answered, whatever the
\* outcome of each backend call, and an answered request gets nothing more
\* than that response: the next step sends it and the server is ready for
\* the next request.
C19_EveryRequestAnswered ==
    /\ [](InFlight => <>Answered)
    /\ [][Done => (req' = IdleReq /\ started')]_vars

\* a request answered after its backend call timed out
C19_Witness ==
    /\ req.handler = "verify" /\ Done /\ HasCall("verify_charge", "timeout")
    /\ req.response.status \in {400, 500}

\* The response of a request run alone: the handler's code applied to the
\* inputs r of the request and to the answers cs the backend gave to its
\* calls, with the client as the startup left it.
AloneCreate(cs) ==
    IF cs = <<>> THEN NoResponse
    ELSE IF cs[1].outcome = "ok"
      THEN Response(402, "challenge", ChallengeContent(cs[1].reply))
    ELSE IF cs[1].reply.raised = "OrvionAPIError"
      THEN Response(500, "create_failed", <<>>)
    ELSE UnhandledError

AloneCheck(r, cs) ==
    LET tid == ProofOf(r.charge_id, r.x_transaction_id) IN
    IF ORVION_API_KEY = "" THEN Response(500, "misconfigured", <<>>)
    ELSE IF CheckNextPc(tid) = "create" THEN AloneCreate(cs)
    ELSE IF cs = <<>> THEN NoResponse
    ELSE IF cs[1].outcome = "ok"
      THEN IF cs[1].reply.verified
             THEN Response(200, "granted", GrantedContent(cs[1].reply, tid))
             ELSE AloneCreate(Tail(cs))
    ELSE IF cs[1].reply.raised = "OrvionAPIError" THEN AloneCreate(Tail(cs))
    ELSE UnhandledError

AloneVerify(r, cs) ==
    IF ORVION_API_KEY = "" THEN Response(500, "misconfigured", <<>>)
    ELSE IF r.body.shape # "dict" THEN Response(400, "invalid_request", <<>>)
    ELSE IF ~Truthy(r.body.transaction_id)
      THEN Response(400, "missing_transaction_id", <<>>)
    ELSE IF cs = <<>> THEN NoResponse
    ELSE IF cs[1].outcome = "ok" THEN VerifyResponse(cs[1].reply)
    ELSE VerifyFailure(cs[1].reply)

AloneProxy(r, cs) ==
    IF r.handler = "confirm" /\ ConfirmError(r.body) # ""
      THEN Response(400, ConfirmError(r.body), <<>>)
    ELSE IF cs = <<>> THEN NoResponse
    ELSE IF cs[1].outcome = "response" THEN ProxyPassThrough(cs[1].reply)
    ELSE ProxyFailure(cs[1].reply)

Alone(r, cs) ==
    IF r.handler = "check" THEN AloneCheck(r, cs)
    ELSE IF r.handler = "verify" THEN AloneVerify(r, cs)
    ELSE AloneProxy(r, cs)

\* the identifier a call of the request carries is the request's own
OwnCalls(r, cs) ==
    \A i \in 1..Len(cs) :
        /\ cs[i].op = "verify_charge" =>
              cs[i].args.transaction_id = r.transaction_id
        /\ cs[i].op = "POST /v1/facilitator/confirm" => cs[i].args.json = r.body

\* C20: with two requests to the manual and proxy handlers interleaved in
\* any way, the response of a request is the response it would get if run
\* alone against the same backend answers, and its calls carry its own
\* inputs; orvion_client stays as the startup assigned it.
C20_ResponseAsIfAlone ==
    /\ started => (orvion_client["main"] = (app = "main" /\ ORVION_API_KEY # ""))
    /\ (req.handler \in {"check", "verify"} \cup Proxies /\ Done) =>
          (req.response = Alone(req, calls) /\ OwnCalls(req, calls))

\* a request is granted access while another request, with another proof,
\* is suspended after its verification failed
C20_Witness ==
    /\ req.handler = "check" /\ Done /\ req.response.status = 200
    /\ parked # PyNone
    /\ parked.req.handler = "check" /\ parked.req.pc = "create"
    /\ parked.req.transaction_id # req.transaction_id
    /\ parked.calls # <<>>

\* C21 (as stated): once the lifespan shutdown has run, close() was called on
\* every OrvionClient the app constructed, and no client is closed before the
\* shutdown.
C21_EveryClientClosedAtShutdown ==
    /\ startup.pc = "stopped" => ConstructedClients \subseteq closed
    /\ closed # {} => startup.pc = "stopped"

\* C22: test_connection answers 200 for every outcome of its backend calls;
\* api_key_valid is true only when reachable is true, health_status is 200
\* and the GET of /v1/health with the API key returned 200; that GET is made
\* only after the GET of /health returned 200.
C22_TestConnection ==
    /\ (req.handler = "test" /\ Done) =>
          /\ req.response.status = 200
          /\ req.response.fields.api_key_valid = "True" =>
                /\ req.response.fields.reachable
                /\ req.response.fields.health_status = 200
                /\ Len(calls) = 2
                /\ calls[2].op = "GET /v1/health"
                /\ calls[2].outcome = "response" /\ calls[2].reply.status = 200
    /\ \A i \in 1..Len(calls) :
          calls[i].op = "GET /v1/health" =>
              /\ i = 2 /\ calls[1].op = "GET /health"
              /\ calls[1].outcome = "response" /\ calls[1].reply.status = 200

\* /health answered 200 and /v1/health answered 200 with something that is
\* no JSON object: answered 200, the key not reported valid
C22_Witness ==
    /\ req.handler = "test" /\ Done /\ Len(calls) = 2
    /\ calls[2].reply.status = 200 /\ calls[2].reply.body = "list"
    /\ req.response.status = 200
    /\ req.response.fields.api_key_valid = NoStr
    /\ req.response.fields.reachable

====
